---------------------------- MODULE Spec2Model ----------------------------
(***************************************************************************)
(* Model of the cache-backed extraction orchestrator (LLMAnalyzer in       *)
(* tools/llm_analyzer.py), of the log-to-session parser                    *)
(* (ConversationProcessor in tools/conversation_processor.py) and of the   *)
(* graph merger (LLMEnhancedProcessor in tools/llm_enhanced_processor.py). *)
(*                                                                         *)
(* Strings are sequences of one-character strings, so that concatenation,  *)
(* strip() and len() are computed as Python computes them.  A JSON object  *)
(* (a dict) is a function whose domain is its set of keys.                 *)
(***************************************************************************)
EXTENDS Integers, Sequences, FiniteSets, TLC

VARIABLES
    cache,            \* the files of cache_dir: key -> file
    total_api_calls,  \* LLMAnalyzer.total_api_calls
    cache_hits,       \* LLMAnalyzer.cache_hits
    analysis_errors,  \* LLMAnalyzer.analysis_errors
    now,              \* the wall clock, in seconds
    invocations,      \* how often client.messages.create was entered
    invokedAt,        \* the clock at the last two invocations, newest first
    last,             \* the most recent analyze_message call and its outcome
    ncalls,           \* analyze_message calls made so far
    batch,            \* the frame of analyze_conversation_batch
    file,             \* the lines of the JSONL file being parsed
    parsed,           \* what parse_jsonl_file returned for it
    parseLog,         \* the _parse_message calls of that parse, in order
    directory,        \* the files of the directory processed last, each
                      \* with what parse_jsonl_file returned for it
    processor_sessions,  \* ConversationProcessor.sessions
    analysed,         \* the sessions handed to analyze_session_with_llm
    graphs,           \* graph_data_list: the graph of each of them
    merged,           \* what merge_graphs did with graph_data_list
    cache_file,       \* the file of one key in a cache_dir that two
                      \* LLMAnalyzer instances share
    instances,        \* the analyze_message call of each of the two
    readerGot         \* what the last _load_from_cache of a reader returned

analyzerVars == <<cache, total_api_calls, cache_hits, analysis_errors, now,
                  invocations, invokedAt, last, ncalls>>
parserVars == <<file, parsed, parseLog, directory, processor_sessions>>
mergerVars == <<analysed, graphs, merged>>
sharedVars == <<cache_file, instances, readerGot>>
vars == <<cache, total_api_calls, cache_hits, analysis_errors, now,
          invocations, invokedAt, last, ncalls, batch, file, parsed, parseLog,
          directory, processor_sessions, analysed, graphs, merged,
          cache_file, instances, readerGot>>

-----------------------------------------------------------------------------
(* Bounds of the model *)

\* analyze_message calls in one run
MaxCalls == 2
\* tokens in one response text of the external capability
MaxRespLen == 3

-----------------------------------------------------------------------------
(* Strings *)

Rep(c, n) == [i \in 1..n |-> c]

IsSpace(c) == c = " "

RECURSIVE LStrip(_)
LStrip(s) == IF s # <<>> /\ IsSpace(Head(s)) THEN LStrip(Tail(s)) ELSE s

RECURSIVE RStrip(_)
RStrip(s) ==
    IF s # <<>> /\ IsSpace(s[Len(s)]) THEN RStrip(SubSeq(s, 1, Len(s) - 1)) ELSE s

\* str.strip()
Strip(s) == RStrip(LStrip(s))

\* s[:n]
Prefix(s, n) == SubSeq(s, 1, IF Len(s) < n THEN Len(s) ELSE n)

\* Python's None
None == <<"None">>

\* {} : the dict with no keys
EmptyDict == <<>>

\* d.get(k, default)
Get(d, k, default) == IF k \in DOMAIN d THEN d[k] ELSE default


-----------------------------------------------------------------------------
(* The text returned by the external capability.                           *)
(*                                                                         *)
(* A response text is a sequence of tokens:                                *)
(*   "F"   the fence opener ```json                                        *)
(*   "E"   the fence closer ```                                            *)
(*   "L"   text that opens a brace and is no JSON, such as {oops           *)
(*   "X"   prose with no brace and no fence                                *)
(*   "A"   the text of the JSON array [1]                                  *)
(*   "Jb"  the text of a JSON object whose entities are no objects         *)
(*   "J1"  the text of a JSON object with entities and relationships       *)
(*   "J2"  the text of the JSON object {}                                  *)

Tokens == {"F", "E", "L", "X", "A", "Jb", "J1", "J2"}

ResponseTexts == UNION {[1..n -> Tokens] : n \in 0..MaxRespLen}

\* JSON values that are no dict carry their kind
JStr(s) == [nondict |-> "str", v |-> s]

JList(l) == [nondict |-> "list", v |-> l]

JNull == [nondict |-> "null"]

\* isinstance(v, dict)
IsDict(v) == "nondict" \notin DOMAIN v

\* isinstance(v, str)
IsStr(v) == ~IsDict(v) /\ v.nondict = "str"

\* isinstance(v, list)
IsList(v) == ~IsDict(v) /\ v.nondict = "list"

\* the JSON array [1]
NonDict == JList(<<1>>)

\* the value json.loads gives for the text of one JSON token
JsonValue(t) ==
    CASE t = "A"  -> NonDict
      [] t = "Jb" -> [entities |-> <<NonDict>>]
      [] t = "J1" -> [entities |-> << [name |-> <<"f">>, type |-> <<"F">>,
                                       confidence |-> 8, context |-> <<"c">>],
                                      [name |-> <<"g">>] >>,
                      relationships |-> << [from |-> <<"f">>, to |-> <<"g">>,
                                            type |-> <<"C">>, confidence |-> 9,
                                            evidence |-> <<"e">>],
                                           EmptyDict >>,
                      concepts |-> << <<"k">> >>]
      [] t = "J2" -> EmptyDict

IsJsonText(t) == t \in {"A", "Jb", "J1", "J2"}

HasOpenBrace(t) == t \in {"L", "Jb", "J1", "J2"}

HasCloseBrace(t) == t \in {"Jb", "J1", "J2"}

\* the least element of a set of numbers, 0 for the empty set
MinOf(S) == IF S = {} THEN 0 ELSE CHOOSE x \in S : \A y \in S : x <= y

MaxOf(S) == IF S = {} THEN 0 ELSE CHOOSE x \in S : \A y \in S : x >= y

\* re.search(r'```json\s*(.*?)\s*```', content, re.DOTALL): the first opener
\* and the first ``` after it; the opener ```json itself begins with ```
FencedMatch(content) ==
    LET open == MinOf({i \in 1..Len(content) : content[i] = "F"})
        close == IF open = 0 THEN 0
                 ELSE MinOf({j \in (open + 1)..Len(content) :
                                content[j] \in {"E", "F"}})
    IN  IF close = 0 THEN [found |-> FALSE]
        ELSE [found |-> TRUE, group |-> SubSeq(content, open + 1, close - 1)]

\* re.search(r'\{.*\}', content, re.DOTALL): greedy, from the first { to the
\* last }
RawMatch(content) ==
    LET first == MinOf({i \in 1..Len(content) : HasOpenBrace(content[i])})
        lastc == MaxOf({j \in 1..Len(content) : HasCloseBrace(content[j])})
    IN  IF first = 0 \/ lastc = 0 \/ lastc < first
        THEN [found |-> FALSE]
        ELSE [found |-> TRUE, group |-> SubSeq(content, first, lastc)]

\* json.loads(json_str): the text must be exactly one JSON value
JsonLoads(json_str) ==
    IF Len(json_str) = 1 /\ IsJsonText(json_str[1])
    THEN [ok |-> TRUE, value |-> JsonValue(json_str[1])]
    ELSE [ok |-> FALSE]

\* lines 194-211: the JSON found in a response text, parsed
ParseResponse(content) ==
    LET fenced == FencedMatch(content)
        raw == RawMatch(content)
    IN  IF fenced.found
        THEN (IF JsonLoads(fenced.group).ok
              THEN [kind |-> "parsed", value |-> JsonLoads(fenced.group).value]
              ELSE [kind |-> "badjson"])
        ELSE IF raw.found
        THEN (IF JsonLoads(raw.group).ok
              THEN [kind |-> "parsed", value |-> JsonLoads(raw.group).value]
              ELSE [kind |-> "badjson"])
        ELSE [kind |-> "nojson"]

\* What one client.messages.create call can do: raise, answer with a first
\* block that carries no text attribute, answer with no block at all, or
\* answer with a text.
ApiOutcomes ==
    {[kind |-> "raise"], [kind |-> "notext"]}
        \cup {ParseResponse(c) : c \in ResponseTexts}

-----------------------------------------------------------------------------
(* LLMAnalyzer: records, cache files and the pure helpers                  *)

\* line 158: the least stripped length that is analysed
MinContentLen == 20

\* line 72: self.rate_limit_delay, in seconds
rate_limit_delay == 1

\* line 223: context[:200]
ContextLimit == 200

\* line 71: self.model
model == <<"c", "l", "a", "u", "d", "e">>

Digit(d) == <<"0", "1", "2", "3", "4", "5", "6", "7", "8", "9">>[d + 1]

\* str(n) of a natural number
RECURSIVE Str(_)
Str(n) == IF n < 10 THEN <<Digit(n)>> ELSE Str(n \div 10) \o <<Digit(n % 10)>>

\* AnalysisResult(session_id=..., message_uuid=...): the dataclass defaults
EmptyResult(session_id, message_uuid) ==
    [session_id |-> session_id, message_uuid |-> message_uuid,
     entities |-> <<>>, relationships |-> <<>>, concepts |-> <<>>,
     analysis_timestamp |-> <<>>, model_version |-> <<>>]

\* IsShort without the length test: only the empty content is short
IsShortEmptyOnly(message_content) == message_content = <<>>

\* line 158: if not message_content or len(message_content.strip()) < 20
IsShort(message_content) ==
    message_content = <<>> \/ Len(Strip(message_content)) < MinContentLen

\* _create_cache_key: the prefix of the SHA-256 digest of the text; the
\* digest is taken to be free of collisions
CreateCacheKey(content) == <<"sha256">> \o content

\* a file whose text is no JSON: what open(cache_file, 'w') followed by a
\* failed json.dump leaves behind
PartialFile == [kind |-> "partial"]

\* a file that holds the JSON text of value v
JsonFile(v) == [kind |-> "json", value |-> v]

\* _load_from_cache without its try block: a file that cannot be read is
\* handed on as it is
LoadFromCacheUnguarded(cache_key, openOk) ==
    IF cache_key \in DOMAIN cache
    THEN IF cache[cache_key].kind = "json"
         THEN [hits |-> 1, found |-> TRUE, value |-> cache[cache_key].value]
         ELSE [hits |-> 1, found |-> TRUE, value |-> NonDict]
    ELSE [hits |-> 0, found |-> FALSE]

\* _load_from_cache: hits is what the call adds to cache_hits
LoadFromCache(cache_key, openOk) ==
    IF cache_key \in DOMAIN cache
    THEN IF ~openOk
         THEN [hits |-> 0, found |-> FALSE]
         ELSE IF cache[cache_key].kind = "json"
         THEN [hits |-> 1, found |-> TRUE, value |-> cache[cache_key].value]
         ELSE [hits |-> 1, found |-> FALSE]
    ELSE [hits |-> 0, found |-> FALSE]

\* the test of line 165 that never succeeds: every call goes on to extract
TruthyNever(loaded) == FALSE

\* line 165: if cached_result
Truthy(loaded) == loaded.found /\ DOMAIN loaded.value # {}

EntityFields ==
    {"id", "name", "entity_type", "confidence", "content", "context", "attributes"}

EntityRequired == {"id", "name", "entity_type", "confidence"}

RelationshipFields ==
    {"from_entity", "to_entity", "relationship_type", "confidence", "evidence",
     "attributes"}

RelationshipRequired ==
    {"from_entity", "to_entity", "relationship_type", "confidence"}

\* Entity(**e)
MakeEntity(e) ==
    [id |-> e.id, name |-> e.name, entity_type |-> e.entity_type,
     confidence |-> e.confidence, content |-> Get(e, "content", None),
     context |-> Get(e, "context", None),
     attributes |-> Get(e, "attributes", EmptyDict)]

\* Relationship(**r)
MakeRelationship(r) ==
    [from_entity |-> r.from_entity, to_entity |-> r.to_entity,
     relationship_type |-> r.relationship_type, confidence |-> r.confidence,
     evidence |-> Get(r, "evidence", <<>>),
     attributes |-> Get(r, "attributes", EmptyDict)]

\* whether lines 166-174 run without raising: cached_result.get needs a dict,
\* Entity(**e) and Relationship(**r) need exactly the dataclass's fields
CanDeserialize(cached) ==
    /\ IsDict(cached)
    /\ \A i \in DOMAIN Get(cached, "entities", <<>>) :
          LET e == cached.entities[i]
          IN  IsDict(e) /\ DOMAIN e \subseteq EntityFields
                        /\ EntityRequired \subseteq DOMAIN e
    /\ \A i \in DOMAIN Get(cached, "relationships", <<>>) :
          LET r == cached.relationships[i]
          IN  IsDict(r) /\ DOMAIN r \subseteq RelationshipFields
                        /\ RelationshipRequired \subseteq DOMAIN r

\* lines 166-174: the AnalysisResult built from a cached payload
FromCache(cached, session_id, message_uuid) ==
    [session_id |-> session_id, message_uuid |-> message_uuid,
     entities |-> [i \in DOMAIN Get(cached, "entities", <<>>) |->
                      MakeEntity(cached.entities[i])],
     relationships |-> [i \in DOMAIN Get(cached, "relationships", <<>>) |->
                           MakeRelationship(cached.relationships[i])],
     concepts |-> Get(cached, "concepts", <<>>),
     analysis_timestamp |-> Get(cached, "analysis_timestamp", <<>>),
     model_version |-> Get(cached, "model_version", <<>>)]

\* the identity without the ordinal: every entity of a message gets the same
EntityIdNoOrdinal(session_id, message_uuid, i) ==
    IF message_uuid # <<>>
    THEN session_id \o <<"_">> \o message_uuid
    ELSE session_id

\* line 216: the identity of the i-th entity, i counted from 0
EntityId(session_id, message_uuid, i) ==
    IF message_uuid # <<>>
    THEN session_id \o <<"_">> \o message_uuid \o <<"_">> \o Str(i)
    ELSE session_id \o <<"_">> \o Str(i)

\* whether lines 213-235 run without raising: parsed.get, entity_data.get
\* and rel_data.get need dicts
CanNormalize(prs) ==
    /\ IsDict(prs)
    /\ \A i \in DOMAIN Get(prs, "entities", <<>>) : IsDict(prs.entities[i])
    /\ \A i \in DOMAIN Get(prs, "relationships", <<>>) :
          IsDict(prs.relationships[i])

\* lines 213-245: the AnalysisResult built from a parsed response
Normalize(prs, context, session_id, message_uuid, time) ==
    [session_id |-> session_id, message_uuid |-> message_uuid,
     entities |->
        [i \in DOMAIN Get(prs, "entities", <<>>) |->
            LET entity_data == prs.entities[i]
            IN  [id |-> EntityId(session_id, message_uuid, i - 1),
                 name |-> Get(entity_data, "name", <<>>),
                 entity_type |-> Get(entity_data, "type", <<>>),
                 confidence |-> Get(entity_data, "confidence", 0),
                 content |-> Get(entity_data, "context", <<>>),
                 context |-> IF context # <<>> THEN Prefix(context, ContextLimit)
                             ELSE None,
                 attributes |-> EmptyDict]],
     relationships |->
        [i \in DOMAIN Get(prs, "relationships", <<>>) |->
            LET rel_data == prs.relationships[i]
            IN  [from_entity |-> Get(rel_data, "from", <<>>),
                 to_entity |-> Get(rel_data, "to", <<>>),
                 relationship_type |-> Get(rel_data, "type", <<>>),
                 confidence |-> Get(rel_data, "confidence", 0),
                 evidence |-> Get(rel_data, "evidence", <<>>),
                 attributes |-> EmptyDict]],
     concepts |-> Get(prs, "concepts", <<>>),
     analysis_timestamp |-> Str(time),
     model_version |-> model]

\* cache_data without analysis_timestamp
CacheDataNoTimestamp(result) ==
    [entities |-> result.entities, relationships |-> result.relationships,
     concepts |-> result.concepts, model_version |-> result.model_version]

\* lines 248-254: cache_data, the asdict() of every entity and relationship
CacheData(result) ==
    [entities |-> result.entities, relationships |-> result.relationships,
     concepts |-> result.concepts,
     analysis_timestamp |-> result.analysis_timestamp,
     model_version |-> result.model_version]

\* what _save_to_cache can do: write the file, fail to open it, or fail in
\* json.dump after open(..., 'w') has created and emptied it
WriteOutcomes == {"ok", "open_failed", "dump_failed"}

\* _save_to_cache that never writes
SaveToCacheNever(files, cache_key, data, w) == files

\* _save_to_cache: the files of cache_dir afterwards
SaveToCache(files, cache_key, data, w) ==
    CASE w = "ok" ->
            [k \in DOMAIN files \cup {cache_key} |->
                IF k = cache_key THEN JsonFile(data) ELSE files[k]]
      [] w = "dump_failed" ->
            [k \in DOMAIN files \cup {cache_key} |->
                IF k = cache_key THEN PartialFile ELSE files[k]]
      [] OTHER -> files

-----------------------------------------------------------------------------
(* LLMAnalyzer.analyze_message                                             *)

\* the record kept of one analyze_message call
CallRecord(message_content, context, outcome, returned, result, readFailed, wrote, invoked) ==
    [content |-> message_content, context |-> context, outcome |-> outcome,
     returned |-> returned, result |-> result, readFailed |-> readFailed,
     wrote |-> wrote, invoked |-> invoked]

NoCall ==
    CallRecord(<<>>, <<>>, "none", FALSE, EmptyResult(<<>>, <<>>), FALSE,
               "none", 0)

\* time.sleep that returns at once
SleepNot(seconds) == 0

\* time.sleep(seconds): the clock advances by the time asked for
Sleep(seconds) == seconds

\* lines 157-159: the short circuit
ShortCircuit(message_content, context, session_id, message_uuid) ==
    /\ last' = CallRecord(message_content, context, "short", TRUE,
                          EmptyResult(session_id, message_uuid), FALSE,
                          "none", 0)
    /\ UNCHANGED <<cache, total_api_calls, cache_hits, analysis_errors, now,
                   invocations, invokedAt>>

\* lines 165-174: the payload loaded from the cache is truthy.  Building the
\* result is outside the try block: an exception there leaves the call.
ServeHit(message_content, context, session_id, message_uuid, loaded, readFailed) ==
    /\ cache_hits' = cache_hits + loaded.hits
    /\ last' = IF CanDeserialize(loaded.value)
               THEN CallRecord(message_content, context, "hit", TRUE,
                               FromCache(loaded.value, session_id, message_uuid),
                               readFailed, "none", 0)
               ELSE CallRecord(message_content, context, "raised", FALSE,
                               EmptyResult(session_id, message_uuid),
                               readFailed, "none", 0)
    /\ UNCHANGED <<cache, total_api_calls, analysis_errors, now, invocations,
                   invokedAt>>

\* the files of cache_dir when the result is saved whether or not the
\* extraction gave one
CacheAfterAlways(files, cache_key, good, result, w) ==
    [k \in DOMAIN files \cup {cache_key} |->
        IF k = cache_key THEN JsonFile(CacheData(result)) ELSE files[k]]

\* lines 203-211, 247-255 and 259-262: the files of cache_dir after the
\* extraction; the returns of a failed extraction come before line 255
CacheAfter(files, cache_key, good, result, w) ==
    IF good THEN SaveToCache(files, cache_key, CacheData(result), w)
    ELSE files

\* lines 176-262: the rate-limit sleep, one client.messages.create call, and
\* what follows it.  The time the call itself takes is left out: it only
\* lengthens the time between two calls.
LiveExtraction(message_content, context, session_id, message_uuid, cache_key, loaded, readFailed) ==
    \E out \in ApiOutcomes :
      \E w \in IF out.kind = "parsed" /\ CanNormalize(out.value)
               THEN WriteOutcomes ELSE {"none"} :
        LET called == now + Sleep(rate_limit_delay)
            done == called
            good == out.kind = "parsed" /\ CanNormalize(out.value)
            result == IF good
                      THEN Normalize(out.value, context, session_id,
                                     message_uuid, done)
                      ELSE EmptyResult(session_id, message_uuid)
            outcome == CASE out.kind = "raise" -> "api_error"
                         [] out.kind = "notext" -> "error"
                         [] out.kind = "nojson" -> "nojson"
                         [] out.kind = "badjson" -> "badjson"
                         [] out.kind = "parsed" -> IF good THEN "ok" ELSE "error"
        IN  /\ cache_hits' = cache_hits + loaded.hits
            /\ now' = done
            /\ invocations' = invocations + 1
            /\ invokedAt' = <<called, invokedAt[1]>>
            /\ total_api_calls' =
                  IF out.kind = "raise" THEN total_api_calls
                  ELSE total_api_calls + 1
            /\ analysis_errors' =
                  IF outcome \in {"api_error", "error"} THEN analysis_errors + 1
                  ELSE analysis_errors
            /\ cache' = CacheAfter(cache, cache_key, good, result, w)
            /\ last' = CallRecord(message_content, context, outcome, TRUE,
                                  result, readFailed, w, 1)

AnalyzeMessage(message_content, context, session_id, message_uuid) ==
    IF IsShort(message_content)
    THEN ShortCircuit(message_content, context, session_id, message_uuid)
    ELSE LET cache_key == CreateCacheKey(message_content \o context) IN
         \E openOk \in IF cache_key \in DOMAIN cache THEN BOOLEAN ELSE {TRUE} :
            LET loaded == LoadFromCache(cache_key, openOk)
                \* the file is there and open() or json.load() raises
                readFailed == /\ cache_key \in DOMAIN cache
                              /\ (~openOk \/ cache[cache_key].kind = "partial")
            IN  IF Truthy(loaded)
                THEN ServeHit(message_content, context, session_id,
                              message_uuid, loaded, readFailed)
                ELSE LiveExtraction(message_content, context, session_id,
                                    message_uuid, cache_key, loaded,
                                    readFailed)

-----------------------------------------------------------------------------
(* The inputs *)

Contents ==
    {<<>>, Rep("a", 19), Rep("a", 20), Rep("a", 21)}

Contexts == {<<>>, <<"a">>}

SessionIds == {<<"s">>}

MessageUuids == {<<>>, <<"u">>}

\* the keys of the files found: those analyze_message looks up for the
\* content of 20 characters
CacheKeys == {CreateCacheKey(Rep("a", MinContentLen) \o x) : x \in Contexts}

\* A cache_dir that exists already is taken over as it is (mkdir with
\* exist_ok): the files found in it were left by earlier runs or by others.
\*   - a file cut short by a failed write
\*   - a payload written by an earlier run
\*   - the JSON text {}
\*   - JSON that is no object
\*   - a payload whose entity carries a field the Entity dataclass lacks
FoundFiles ==
    {PartialFile,
     JsonFile(CacheData(Normalize(JsonValue("J1"), <<>>, <<"r">>, <<>>, 0))),
     JsonFile(EmptyDict),
     JsonFile(NonDict),
     JsonFile([entities |-> << [id |-> <<"r", "_", "0">>, name |-> <<"f">>,
                                entity_type |-> <<"F">>, confidence |-> 8,
                                file_path |-> <<"p">>] >>])}

\* the directory is empty or holds one file
FoundDirs ==
    UNION {[K -> FoundFiles] :
              K \in {K \in SUBSET CacheKeys : Cardinality(K) <= 1}}

NoBatch == [status |-> "idle"]

NoFile == [parts |-> <<>>, stem |-> <<>>, lines |-> <<>>]

NotParsed == [status |-> "unparsed"]

NotMerged == [status |-> "unmerged"]

\* no file parsed, no directory processed
ParserIdle ==
    /\ file = NoFile
    /\ parsed = NotParsed
    /\ parseLog = <<>>
    /\ directory = <<>>
    /\ processor_sessions = <<>>

\* no session analysed, nothing merged
MergerIdle ==
    /\ analysed = <<>>
    /\ graphs = <<>>
    /\ merged = NotMerged

NoCacheFile == [exists |-> FALSE, text |-> <<>>]

NotRead == [kind |-> "none"]

\* no second LLMAnalyzer instance, no reader
SharedIdle ==
    /\ cache_file = NoCacheFile
    /\ instances = <<>>
    /\ readerGot = NotRead

\* the analyzer before its first call, with an empty cache_dir
AnalyzerIdle ==
    /\ cache = <<>> /\ total_api_calls = 0 /\ cache_hits = 0
    /\ analysis_errors = 0 /\ now = 0 /\ invocations = 0
    /\ invokedAt = <<-1, -1>> /\ last = NoCall /\ ncalls = 0

InitAnalyzer ==
    /\ cache \in FoundDirs
    /\ total_api_calls = 0
    /\ cache_hits = 0
    /\ analysis_errors = 0
    /\ now = 0
    /\ invocations = 0
    /\ invokedAt = <<-1, -1>>
    /\ last = NoCall
    /\ ncalls = 0

Init ==
    /\ InitAnalyzer
    /\ batch = NoBatch
    /\ ParserIdle
    /\ MergerIdle
    /\ SharedIdle

\* one call of analyze_message by the owner of the analyzer
Call ==
    /\ ncalls < MaxCalls
    /\ \E c \in Contents, x \in Contexts, sid \in SessionIds,
          uuid \in MessageUuids :
          AnalyzeMessage(c, x, sid, uuid)
    /\ ncalls' = ncalls + 1
    /\ UNCHANGED <<batch, parserVars, mergerVars, sharedVars>>

Next == Call

Spec == Init /\ [][Next]_vars

-----------------------------------------------------------------------------
(* LLMAnalyzer.analyze_conversation_batch                                  *)

\* line 275: f"Project: {session.project_name}, Session: {session.session_id}"
BatchContext(session) ==
    <<"P", ":">> \o session.project_name \o <<",", "S", ":">> \o session.session_id

Min(a, b) == IF a < b THEN a ELSE b

\* the slice without the cap: every message of the session
MessagesToAnalyzeAll(session, max_messages) == session.messages

\* line 278: session.messages[:max_messages]
MessagesToAnalyze(session, max_messages) ==
    Prefix(session.messages, max_messages)

\* line 281: the messages that are handed to analyze_message
IsAnalysed(message) ==
    message.message_type \in {<<"user">>, <<"assistant">>}
        /\ message.content # <<>>

Message(uuid, message_type, content) ==
    [uuid |-> uuid, message_type |-> message_type, content |-> content]

\* the sessions handed to the batch
SessionS ==
    [session_id |-> <<"s">>, project_name |-> <<"p">>,
     messages |-> << Message(<<"u">>, <<"user">>, Rep("a", 20)),
                     Message(<<"v">>, <<"assistant">>, <<>>),
                     Message(<<"w">>, <<"assistant">>, Rep("a", 20)) >>]

SessionT ==
    [session_id |-> <<"t">>, project_name |-> <<"p">>,
     messages |-> << Message(<<"x">>, <<"user">>, Rep("a", 21)) >>]

BatchSessions == {<<SessionS>>, <<SessionS, SessionT>>, <<SessionT, SessionS>>}

BatchCaps == {2, 3}

\* the keys a batch over these sessions can look up
BatchKeys ==
    {CreateCacheKey(m.content \o BatchContext(ss)) :
        ss \in {SessionS, SessionT},
        m \in {SessionS.messages[1], SessionT.messages[1]}}

\* the cache directory the batch finds: empty, or one file
BatchFoundDirs ==
    UNION {[K -> FoundFiles] :
              K \in {K \in SUBSET BatchKeys : Cardinality(K) <= 1}}

InitBatch ==
    /\ total_api_calls = 0 /\ cache_hits = 0 /\ analysis_errors = 0
    /\ now = 0 /\ invocations = 0 /\ invokedAt = <<-1, -1>>
    /\ last = NoCall /\ ncalls = 0
    /\ cache \in BatchFoundDirs
    /\ batch = NoBatch
    /\ ParserIdle
    /\ MergerIdle
    /\ SharedIdle

\* lines 264-270: the call of analyze_conversation_batch
BatchStart ==
    /\ batch.status = "idle"
    /\ \E sessions \in BatchSessions, max_messages \in BatchCaps :
          batch' = [status |-> "running", sessions |-> sessions,
                    max_messages |-> max_messages, si |-> 1, mi |-> 1,
                    session_results |-> <<>>, all_results |-> <<>>]
    /\ UNCHANGED <<analyzerVars, parserVars, mergerVars, sharedVars>>

\* lines 280-290: one turn of the inner loop.  An exception that leaves
\* analyze_message leaves analyze_conversation_batch too: nothing catches it.
BatchMessage ==
    /\ batch.status = "running"
    /\ batch.si <= Len(batch.sessions)
    /\ LET session == batch.sessions[batch.si]
           todo == MessagesToAnalyze(session, batch.max_messages)
       IN  /\ batch.mi <= Len(todo)
           /\ IF IsAnalysed(todo[batch.mi])
              THEN /\ AnalyzeMessage(todo[batch.mi].content,
                                     BatchContext(session), session.session_id,
                                     todo[batch.mi].uuid)
                   /\ ncalls' = ncalls + 1
                   /\ batch' =
                        IF last'.returned
                        THEN [batch EXCEPT
                                !.session_results = Append(@, last'.result),
                                !.mi = @ + 1]
                        ELSE [status |-> "aborted"]
              ELSE /\ batch' = [batch EXCEPT !.mi = @ + 1]
                   /\ UNCHANGED analyzerVars
    /\ UNCHANGED <<parserVars, mergerVars, sharedVars>>

\* lines 271-278 and 292: the end of one session and the start of the next
BatchNextSession ==
    /\ batch.status = "running"
    /\ batch.si <= Len(batch.sessions)
    /\ batch.mi > Len(MessagesToAnalyze(batch.sessions[batch.si],
                                        batch.max_messages))
    /\ batch' = [batch EXCEPT
                    !.all_results = @ \o batch.session_results,
                    !.session_results = <<>>,
                    !.si = @ + 1,
                    !.mi = 1]
    /\ UNCHANGED <<analyzerVars, parserVars, mergerVars, sharedVars>>

\* line 294: return all_results
BatchReturn ==
    /\ batch.status = "running"
    /\ batch.si > Len(batch.sessions)
    /\ batch' = [status |-> "done", sessions |-> batch.sessions,
                 max_messages |-> batch.max_messages,
                 returned |-> batch.all_results]
    /\ UNCHANGED <<analyzerVars, parserVars, mergerVars, sharedVars>>

NextBatch == BatchStart \/ BatchMessage \/ BatchNextSession \/ BatchReturn

SpecBatch == InitBatch /\ [][NextBatch]_vars

-----------------------------------------------------------------------------
(* ConversationProcessor: _parse_message and parse_jsonl_file              *)

NoMessage == [returned |-> TRUE, some |-> FALSE]

\* an exception leaves the function
Raised == [returned |-> FALSE, some |-> FALSE]

\* Texts that the parser only passes on or compares (type, uuid, sessionId,
\* a block's name) are plain; the values whose kind the parser inspects
\* (message, content, a block's text, toolUseResult, stdout, stderr) carry it.

\* lines 132-147 with line 135 putting the text in front of content
RECURSIVE ParseBlocksPrepend(_, _)
ParseBlocksPrepend(items, acc) ==
    IF items = <<>> \/ acc.raised THEN acc
    ELSE LET item == Head(items)
             next ==
                IF ~IsDict(item) THEN acc
                ELSE IF Get(item, "type", None) = <<"text">>
                THEN (IF IsStr(Get(item, "text", JStr(<<>>)))
                      THEN [acc EXCEPT !.content =
                                Get(item, "text", JStr(<<>>)).v \o @]
                      ELSE [acc EXCEPT !.raised = TRUE])
                ELSE IF Get(item, "type", None) = <<"tool_use">>
                THEN [acc EXCEPT !.tool_uses =
                         Append(@, [name |-> Get(item, "name", <<>>),
                                    input |-> Get(item, "input", EmptyDict),
                                    id |-> Get(item, "id", <<>>)])]
                ELSE IF Get(item, "type", None) = <<"tool_result">>
                THEN [acc EXCEPT !.tool_results =
                         Append(@, [content |-> Get(item, "content", <<>>),
                                    tool_use_id |-> Get(item, "tool_use_id", <<>>),
                                    is_error |-> Get(item, "is_error", FALSE)])]
                ELSE acc
         IN  ParseBlocksPrepend(Tail(items), next)

\* the blocks of a message whose content is a list, lines 132-147; raised
\* tells that content += item.get('text', '') met a text that is no str
RECURSIVE ParseBlocks(_, _)
ParseBlocks(items, acc) ==
    IF items = <<>> \/ acc.raised THEN acc
    ELSE LET item == Head(items)
             next ==
                IF ~IsDict(item) THEN acc
                ELSE IF Get(item, "type", None) = <<"text">>
                THEN (IF IsStr(Get(item, "text", JStr(<<>>)))
                      THEN [acc EXCEPT !.content =
                                @ \o Get(item, "text", JStr(<<>>)).v]
                      ELSE [acc EXCEPT !.raised = TRUE])
                ELSE IF Get(item, "type", None) = <<"tool_use">>
                THEN [acc EXCEPT !.tool_uses =
                         Append(@, [name |-> Get(item, "name", <<>>),
                                    input |-> Get(item, "input", EmptyDict),
                                    id |-> Get(item, "id", <<>>)])]
                ELSE IF Get(item, "type", None) = <<"tool_result">>
                THEN [acc EXCEPT !.tool_results =
                         Append(@, [content |-> Get(item, "content", <<>>),
                                    tool_use_id |-> Get(item, "tool_use_id", <<>>),
                                    is_error |-> Get(item, "is_error", FALSE)])]
                ELSE acc
         IN  ParseBlocks(Tail(items), next)

\* lines 124-147: content, tool_uses and tool_results of data['message']
ParseBody(data) ==
    LET empty == [content |-> <<>>, tool_uses |-> <<>>, tool_results |-> <<>>,
                  raised |-> FALSE]
    IN  IF "message" \notin DOMAIN data THEN empty
        ELSE LET msg == data.message
             IN  IF ~IsDict(msg)
                 \* 'content' in msg: a TypeError for None; for a str that
                 \* does not hold the word, and for a list, simply False
                 THEN (IF IsStr(msg) \/ IsList(msg) THEN empty
                       ELSE [empty EXCEPT !.raised = TRUE])
                 ELSE IF "content" \notin DOMAIN msg THEN empty
                 ELSE IF IsStr(msg.content)
                 THEN [empty EXCEPT !.content = msg.content.v]
                 ELSE IF IsList(msg.content)
                 THEN ParseBlocks(msg.content.v, empty)
                 ELSE empty

\* lines 149-155 with the content taken from stdout alone
SideChannelStdoutOnly(data) ==
    IF "toolUseResult" \notin DOMAIN data THEN [raised |-> FALSE, results |-> <<>>]
    ELSE IF \/ ~IsDict(data.toolUseResult)
            \/ ~IsStr(Get(data.toolUseResult, "stdout", JStr(<<>>)))
            \/ ~IsStr(Get(data.toolUseResult, "stderr", JStr(<<>>)))
    THEN [raised |-> TRUE, results |-> <<>>]
    ELSE [raised |-> FALSE,
          results |->
            << [content |-> Get(data.toolUseResult, "stdout", JStr(<<>>)).v,
                is_error |-> Get(data.toolUseResult, "stderr", JStr(<<>>)).v # <<>>,
                interrupted |-> Get(data.toolUseResult, "interrupted", FALSE)] >>]

\* lines 149-155: the side-channel tool result; raised tells that
\* toolUseResult is no dict or that stdout + stderr is no str + str
SideChannel(data) ==
    IF "toolUseResult" \notin DOMAIN data THEN [raised |-> FALSE, results |-> <<>>]
    ELSE LET r == data.toolUseResult
             out == Get(r, "stdout", JStr(<<>>))
             err == Get(r, "stderr", JStr(<<>>))
         IN  IF ~IsDict(r) \/ ~IsStr(out) \/ ~IsStr(err)
             THEN [raised |-> TRUE, results |-> <<>>]
             ELSE [raised |-> FALSE,
                   results |-> << [content |-> out.v \o err.v,
                                   is_error |-> err.v # <<>>,
                                   interrupted |-> Get(r, "interrupted", FALSE)] >>]

\* line 107 without the test: every record is taken for a turn
TypeAcceptedAny(data) == TRUE

\* line 107: data.get('type') in ['user', 'assistant']
TypeAccepted(data) == Get(data, "type", None) \in {<<"user">>, <<"assistant">>}

\* lines 106-168, the body of the try block of _parse_message: a
\* ConversationMessage, None for a record that is no user or assistant turn,
\* or an exception (data.get on a value that is no dict, and what ParseBody
\* and SideChannel raise)
ParseMessageTry(data) ==
    IF ~IsDict(data) THEN Raised
    ELSE IF ~TypeAccepted(data) THEN NoMessage
    ELSE LET body == ParseBody(data)
             side == SideChannel(data)
         IN  IF body.raised \/ side.raised THEN Raised
             ELSE [returned |-> TRUE, some |-> TRUE,
                   message |->
                     [uuid |-> Get(data, "uuid", <<>>),
                      timestamp |-> Get(data, "timestamp", <<>>),
                      message_type |-> Get(data, "type", <<>>),
                      content |-> Strip(body.content),
                      tool_uses |-> body.tool_uses,
                      tool_results |-> body.tool_results \o side.results,
                      session_id |-> Get(data, "sessionId", <<>>),
                      parent_uuid |-> Get(data, "parentUuid", None),
                      cwd |-> Get(data, "cwd", <<>>),
                      git_branch |-> Get(data, "gitBranch", <<>>)]]

\* _parse_message without its except clause
ParseMessageUnguarded(data) == ParseMessageTry(data)

\* _parse_message: lines 170-172 turn every exception of the body into None
ParseMessage(data) ==
    IF ParseMessageTry(data).returned THEN ParseMessageTry(data) ELSE NoMessage

\* A line of the file is one of
\*   [kind |-> "blank"]        nothing but white space
\*   [kind |-> "badjson"]      text that json.loads rejects (JSONDecodeError)
\*   [kind |-> "undecodable"]  bytes that are no UTF-8: reading the file with
\*                             encoding='utf-8' raises UnicodeDecodeError
\*   [kind |-> "toodeep"]      valid JSON nested deeper than the decoder's
\*                             recursion limit: json.loads raises RecursionError
\*   [kind |-> "json", data |-> v]   the text of the JSON value v
BlankLine == [kind |-> "blank"]

BadJsonLine == [kind |-> "badjson"]

UndecodableLine == [kind |-> "undecodable"]

TooDeepLine == [kind |-> "toodeep"]

JsonLine(v) == [kind |-> "json", data |-> v]

\* not session_id that takes only None for missing
FalsyNoneOnly(v) == v = None

\* not session_id (lines 74 and 85): None or ''
Falsy(v) == v = None \/ v = <<>>

\* lines 64-79: the loop over the lines.  Only JSONDecodeError is caught in
\* the loop; any other exception ends it.  log keeps every _parse_message
\* call: the record it was given and what came of it.
RECURSIVE ParseLines(_, _)
ParseLines(lines, acc) ==
    IF lines = <<>> \/ acc.raised THEN acc
    ELSE LET line == Head(lines)
             next ==
                CASE line.kind \in {"blank", "badjson"} -> acc
                  [] line.kind \in {"undecodable", "toodeep"} ->
                        [acc EXCEPT !.raised = TRUE]
                  [] line.kind = "json" ->
                        LET m == ParseMessage(line.data)
                            logged == Append(acc.log, [data |-> line.data,
                                                       result |-> m])
                        IN  IF ~m.returned
                            THEN [acc EXCEPT !.raised = TRUE, !.log = logged]
                            ELSE IF m.some
                            THEN [acc EXCEPT
                                    !.messages = Append(@, m.message),
                                    !.session_id =
                                        IF Falsy(@) THEN m.message.session_id
                                        ELSE @,
                                    !.log = logged]
                            ELSE [acc EXCEPT !.log = logged]
         IN  ParseLines(Tail(lines), next)

\* _extract_project_name
ExtractProjectName(parts) ==
    IF \E i \in DOMAIN parts : parts[i] = <<"agrama">> THEN <<"agrama">>
    ELSE IF \E i \in DOMAIN parts : parts[i] = <<"agentprobe">>
    THEN <<"agentprobe">>
    ELSE <<"unknown">>

\* a count that does not look at the type
CountAll(messages, t) == Len(messages)

\* sum(1 for m in messages if m.message_type == t)
CountType(messages, t) ==
    Cardinality({i \in DOMAIN messages : messages[i].message_type = t})

RECURSIVE SumToolUses(_)
SumToolUses(messages) ==
    IF messages = <<>> THEN 0
    ELSE Len(Head(messages).tool_uses) + SumToolUses(Tail(messages))

\* lines 59-60: before the first line
NoLines == [messages |-> <<>>, session_id |-> None, raised |-> FALSE,
            log |-> <<>>]

\* lines 84-97: the session of the messages collected
MakeSession(f, acc) ==
    [session_id |-> IF Falsy(acc.session_id) THEN f.stem ELSE acc.session_id,
     project_name |-> ExtractProjectName(f.parts),
     messages |-> acc.messages,
     file_path |-> f.parts,
     total_messages |-> Len(acc.messages),
     user_messages |-> CountType(acc.messages, <<"user">>),
     assistant_messages |-> CountType(acc.messages, <<"assistant">>),
     tool_uses |-> SumToolUses(acc.messages)]

\* parse_jsonl_file without lines 81-82: a session of whatever was collected
ParseJsonlFileAnyCount(f) ==
    IF ParseLines(f.lines, NoLines).raised THEN [status |-> "none"]
    ELSE [status |-> "session",
          session |-> MakeSession(f, ParseLines(f.lines, NoLines))]

\* parse_jsonl_file: f is the file: the parts of its path, its stem and its
\* lines
ParseJsonlFile(f) ==
    LET acc == ParseLines(f.lines, NoLines)
    IN  IF acc.raised \/ acc.messages = <<>>
        THEN [status |-> "none"]
        ELSE [status |-> "session", session |-> MakeSession(f, acc)]

\* the _parse_message calls parse_jsonl_file makes for f
ParseLog(f) == ParseLines(f.lines, NoLines).log

\* The records a line can hold
UserHi ==
    [type |-> <<"user">>, uuid |-> <<"a">>, sessionId |-> <<"s1">>,
     message |-> [content |-> JStr(<<"h", "i">>)]]

AssistantOk ==
    [type |-> <<"assistant">>, uuid |-> <<"b">>, sessionId |-> <<"s1">>,
     message |->
        [content |-> JList(<< [type |-> <<"text">>, text |-> JStr(<<"o", "k">>)],
                              [type |-> <<"tool_use">>, name |-> <<"Read">>,
                               input |-> EmptyDict, id |-> <<"t1">>] >>)]]

Meta == [type |-> <<"meta">>]

\* no sessionId, and white space around the text
UserPadded ==
    [type |-> <<"user">>, uuid |-> <<"c">>,
     message |-> [content |-> JStr(<<" ", "x", " ">>)]]

\* "message": null
UserNullMessage ==
    [type |-> <<"user">>, uuid |-> <<"d">>, sessionId |-> <<"s2">>,
     message |-> JNull]

\* a tool_result block and the side channel as an object
UserToolResult ==
    [type |-> <<"user">>, uuid |-> <<"e">>, sessionId |-> <<"s2">>,
     message |->
        [content |-> JList(<< [type |-> <<"tool_result">>, content |-> <<"r">>,
                               tool_use_id |-> <<"t1">>] >>)],
     toolUseResult |-> [stdout |-> JStr(<<"o">>), stderr |-> JStr(<<"e">>)]]

\* the side channel as a string
UserStringResult ==
    [type |-> <<"user">>, uuid |-> <<"f">>, sessionId |-> <<"s2">>,
     message |-> [content |-> JStr(<<"y">>)],
     toolUseResult |-> JStr(<<"E">>)]

\* two text blocks with white space at the ends, a tool_use and a
\* tool_result between them, a block that is no object, a block of another
\* type and a text block without text; no sessionId
AssistantBlocks ==
    [type |-> <<"assistant">>, uuid |-> <<"g">>,
     message |->
        [content |-> JList(<< [type |-> <<"text">>, text |-> JStr(<<" ", "p">>)],
                              [type |-> <<"tool_use">>, name |-> <<"Edit">>,
                               id |-> <<"t2">>],
                              JStr(<<"z">>),
                              [type |-> <<"tool_result">>, content |-> <<"q">>,
                               tool_use_id |-> <<"t2">>, is_error |-> TRUE],
                              [type |-> <<"image">>],
                              [type |-> <<"text">>],
                              [type |-> <<"text">>, text |-> JStr(<<"r", " ">>)] >>)],
     toolUseResult |-> [stdout |-> JStr(<<"o">>), interrupted |-> TRUE]]

\* a text block whose text is null
AssistantNullText ==
    [type |-> <<"assistant">>, uuid |-> <<"h">>, sessionId |-> <<"s2">>,
     message |-> [content |-> JList(<< [type |-> <<"text">>, text |-> JNull] >>)]]

LinePool ==
    {BlankLine, BadJsonLine, UndecodableLine, TooDeepLine, JsonLine(NonDict),
     JsonLine(EmptyDict), JsonLine(Meta), JsonLine(UserHi),
     JsonLine(AssistantOk), JsonLine(UserPadded), JsonLine(UserNullMessage),
     JsonLine(UserToolResult), JsonLine(UserStringResult),
     JsonLine(AssistantBlocks), JsonLine(AssistantNullText)}

\* lines in one file
MaxLines == 3

\* the paths of the files: file_path.parts and file_path.stem
Paths ==
    {[parts |-> <<<<"tmp">>, <<"agrama">>, <<"x.jsonl">>>>, stem |-> <<"x">>],
     [parts |-> <<<<"tmp">>, <<"y.jsonl">>>>, stem |-> <<"y">>]}

Files ==
    {[parts |-> path.parts, stem |-> path.stem, lines |-> lines] :
        path \in Paths,
        lines \in UNION {[1..n -> LinePool] : n \in 0..MaxLines}}

InitParse ==
    /\ AnalyzerIdle
    /\ batch = NoBatch
    /\ MergerIdle
    /\ SharedIdle
    /\ file \in Files
    /\ parsed = NotParsed
    /\ parseLog = <<>>
    /\ directory = <<>>
    /\ processor_sessions = <<>>

\* one call of parse_jsonl_file on the file
ParseFile ==
    /\ parsed.status = "unparsed"
    /\ parsed' = ParseJsonlFile(file)
    /\ parseLog' = ParseLog(file)
    /\ UNCHANGED <<analyzerVars, batch, mergerVars, sharedVars, file, directory,
                   processor_sessions>>

NextParse == ParseFile

SpecParse == InitParse /\ [][NextParse]_vars

-----------------------------------------------------------------------------
(* ConversationProcessor.process_directory                                 *)

\* files in one directory
MaxDirFiles == 2
\* sessions the processor holds
MaxSessions == 3

\* The files a directory can hold: an empty one, one of malformed and blank
\* lines, one of records that are no turns, the three-line log of a user and
\* an assistant turn and a meta record, one cut off by a line that is no
\* UTF-8, one whose only turn cannot be read, one with a turn without
\* sessionId.
DirFiles ==
    {[parts |-> path.parts, stem |-> path.stem, lines |-> lines] :
        path \in {path \in Paths : path.stem = <<"x">>},
        lines \in {<<>>,
                   <<BadJsonLine, BlankLine>>,
                   <<JsonLine(Meta), JsonLine(NonDict)>>,
                   <<JsonLine(UserHi), JsonLine(AssistantOk), JsonLine(Meta)>>,
                   <<JsonLine(UserHi), UndecodableLine>>,
                   <<JsonLine(UserNullMessage)>>}}
    \cup {[parts |-> path.parts, stem |-> path.stem,
           lines |-> <<JsonLine(UserPadded)>>] :
            path \in {path \in Paths : path.stem = <<"y">>}}

\* directory.glob(pattern): the files found, in the order found
Directories == UNION {[1..n -> DirFiles] : n \in 0..MaxDirFiles}

\* line 196: if session
IsSession(result) == result.status = "session"

\* the session of a result
SessionOf(result) == result.session

\* lines 196-197: the sessions of the results kept, in their order
RECURSIVE SessionsOf(_)
SessionsOf(results) ==
    IF results = <<>> THEN <<>>
    ELSE <<SessionOf(Head(results))>> \o SessionsOf(Tail(results))

InitDirectory ==
    /\ AnalyzerIdle
    /\ batch = NoBatch
    /\ MergerIdle
    /\ SharedIdle
    /\ ParserIdle

\* one call of process_directory: every file is parsed, the sessions that
\* came of it are appended to self.sessions
ProcessDirectory ==
    \E dir \in Directories :
        LET results == [i \in DOMAIN dir |-> ParseJsonlFile(dir[i])]
            found == SessionsOf(SelectSeq(results, IsSession))
        IN  /\ Len(processor_sessions) + Len(dir) <= MaxSessions
            /\ directory' = [i \in DOMAIN dir |->
                                [file |-> dir[i], result |-> results[i]]]
            /\ processor_sessions' = processor_sessions \o found
            /\ UNCHANGED <<analyzerVars, batch, mergerVars, sharedVars, file, parsed,
                           parseLog>>

NextDirectory == ProcessDirectory

SpecDirectory == InitDirectory /\ [][NextDirectory]_vars

-----------------------------------------------------------------------------
(* LLMEnhancedProcessor: analyze_session_with_llm and merge_graphs         *)

\* graphs in graph_data_list
MaxGraphs == 3

CodeEntityFields ==
    {"name", "type", "description", "file_path", "line_number", "language"}

CodeEntityRequired == {"name", "type", "description"}

EdgeFields == {"source", "target", "type", "confidence", "context"}

\* CodeEntity(**entity_data): the fields given, None for the optional ones
\* left out
MakeCodeEntity(entity_data) ==
    [k \in CodeEntityFields |-> Get(entity_data, k, None)]

\* whether CodeEntity(**entity_data) raises TypeError: a required field is
\* missing or a field is unknown
IsCodeEntity(entity_data) ==
    /\ CodeEntityRequired \subseteq DOMAIN entity_data
    /\ DOMAIN entity_data \subseteq CodeEntityFields

\* whether Relationship(**rel_data) raises TypeError: every field is required
IsEdge(rel_data) == DOMAIN rel_data = EdgeFields

\* lines 210-212: the graph returned when anything in the try block raises
ErrorGraph ==
    [entities |-> <<>>, relationships |-> <<>>,
     metadata |-> [error |-> <<"e">>]]

\* analyze_session_with_llm: out is what client.messages.create does; the
\* inputs of its tool_use blocks are out.entities and out.relationships
AnalyzeSessionWithLlm(session, out) ==
    IF out.kind = "raise" THEN ErrorGraph
    ELSE IF \/ \E i \in DOMAIN out.entities : ~IsCodeEntity(out.entities[i])
            \/ \E i \in DOMAIN out.relationships : ~IsEdge(out.relationships[i])
    THEN ErrorGraph
    ELSE [entities |-> [i \in DOMAIN out.entities |->
                           MakeCodeEntity(out.entities[i])],
          relationships |-> out.relationships,
          metadata |-> [session_id |-> session.session_id,
                        project_name |-> session.project_name,
                        total_entities |-> Len(out.entities),
                        total_relationships |-> Len(out.relationships)]]

\* line 284 without the test: every entity is new
IsNewAlways(entity, entity_names) == TRUE

\* line 284: entity.name not in entity_names
IsNew(entity, entity_names) == entity.name \notin entity_names

\* lines 283-286: the entities of one graph, added to those collected
RECURSIVE CollectEntities(_, _)
CollectEntities(entities, acc) ==
    IF entities = <<>> THEN acc
    ELSE CollectEntities(
            Tail(entities),
            IF IsNew(Head(entities), acc.entity_names)
            THEN [all_entities |-> Append(acc.all_entities, Head(entities)),
                  entity_names |-> acc.entity_names \cup {Head(entities).name}]
            ELSE acc)

\* line 288 with the relationships already collected left out
ExtendUnique(all_relationships, relationships) ==
    all_relationships \o
        SelectSeq(relationships,
                  LAMBDA r : \A i \in DOMAIN all_relationships :
                                all_relationships[i] # r)

\* line 288: all_relationships.extend(graph.relationships)
Extend(all_relationships, relationships) == all_relationships \o relationships

\* lines 282-289: the loop over graph_data_list
RECURSIVE MergeLoop(_, _)
MergeLoop(graph_data_list, acc) ==
    IF graph_data_list = <<>> THEN acc
    ELSE LET graph == Head(graph_data_list)
             collected == CollectEntities(
                            graph.entities,
                            [all_entities |-> acc.all_entities,
                             entity_names |-> acc.entity_names])
         IN  MergeLoop(
                Tail(graph_data_list),
                [all_entities |-> collected.all_entities,
                 entity_names |-> collected.entity_names,
                 all_relationships |->
                    Extend(acc.all_relationships, graph.relationships),
                 projects |->
                    acc.projects \cup
                        {Get(graph.metadata, "project_name", <<"unknown">>)}])

\* lines 272-300: merged_graph; merge_timestamp is left out
MergedGraph(graph_data_list) ==
    LET acc == MergeLoop(graph_data_list,
                         [all_entities |-> <<>>, entity_names |-> {},
                          all_relationships |-> <<>>, projects |-> {}])
    IN  [entities |-> acc.all_entities,
         relationships |-> acc.all_relationships,
         metadata |-> [total_sessions |-> Len(graph_data_list),
                       projects |-> acc.projects,
                       total_entities |-> Len(acc.all_entities),
                       total_relationships |-> Len(acc.all_relationships)]]

\* The sessions analysed
MergeSessions ==
    {[session_id |-> <<"s1">>, project_name |-> <<"agrama">>],
     [session_id |-> <<"s2">>, project_name |-> <<"agentprobe">>]}

EntityX(description) ==
    [name |-> <<"X">>, type |-> <<"function">>, description |-> description]

EntityY ==
    [name |-> <<"Y">>, type |-> <<"file">>, description |-> <<"y">>,
     file_path |-> <<"p">>]

EdgeXY ==
    [source |-> <<"X">>, target |-> <<"Y">>, type |-> <<"calls">>,
     confidence |-> 9, context |-> <<>>]

\* an edge to a name no entity has
EdgeXZ ==
    [source |-> <<"X">>, target |-> <<"Z">>, type |-> <<"calls">>,
     confidence |-> 9, context |-> <<>>]

\* What client.messages.create does for a session: it raises; it answers
\* with no tool_use block; with X twice and Y, and an edge to the unknown Z;
\* with Y and another description of X, and with the edge X-Y again; with an
\* entity without description
SessionOutcomes ==
    {[kind |-> "raise"],
     [kind |-> "answer", entities |-> <<>>, relationships |-> <<>>],
     [kind |-> "answer",
      entities |-> <<EntityX(<<"1">>), EntityY, EntityX(<<"3">>)>>,
      relationships |-> <<EdgeXY, EdgeXZ>>],
     [kind |-> "answer",
      entities |-> <<EntityY, EntityX(<<"2">>)>>,
      relationships |-> <<EdgeXY>>],
     [kind |-> "answer",
      entities |-> << [name |-> <<"W">>, type |-> <<"file">>] >>,
      relationships |-> <<>>]}

InitMerge ==
    /\ AnalyzerIdle
    /\ batch = NoBatch
    /\ ParserIdle
    /\ MergerIdle
    /\ SharedIdle

\* lines 246-251: one more session is analysed and its graph appended to
\* graph_data_list
AnalyzeSession ==
    /\ merged.status = "unmerged"
    /\ Len(graphs) < MaxGraphs
    /\ \E session \in MergeSessions, out \in SessionOutcomes :
          /\ analysed' = Append(analysed, session)
          /\ graphs' = Append(graphs, AnalyzeSessionWithLlm(session, out))
    /\ UNCHANGED <<analyzerVars, batch, parserVars, sharedVars, merged>>

\* merge_graphs(graph_data_list, output_path): the merged graph is built,
\* written to output_path and returned; when the file cannot be opened the
\* exception leaves merge_graphs
MergeGraphs ==
    /\ merged.status = "unmerged"
    /\ \E w \in {"ok", "open_failed"} :
          merged' = IF w = "ok"
                    THEN [status |-> "merged", graph |-> MergedGraph(graphs)]
                    ELSE [status |-> "raised"]
    /\ UNCHANGED <<analyzerVars, batch, parserVars, sharedVars, analysed, graphs>>

NextMerge == AnalyzeSession \/ MergeGraphs

SpecMerge == InitMerge /\ [][NextMerge]_vars

-----------------------------------------------------------------------------
(* Two LLMAnalyzer instances on one cache_dir                              *)
(*                                                                         *)
(* Both analyse the same (content, context), so both look up and write the *)
(* file of the same key.  Each instance runs lines 161-257 in its own      *)
(* process; the steps of the two interleave at the calls that reach the    *)
(* file: exists(), open(..., 'r') with json.load, open(..., 'w') and each  *)
(* write of json.dump.                                                     *)
(*                                                                         *)
(* The text of the file is a sequence of tokens: "{" and "}", the members  *)
(* of the JSON object, and "0" for a byte of a hole.                       *)

\* tokens one write call of json.dump's file object transfers
MaxChunk == 2

Instances == {1, 2}

Members == {"x1", "x2", "y1", "z1", "z2"}

\* the payloads an extraction can give, each the members of its cache_data
Payloads == {<<"x1", "x2">>, <<"y1">>, <<"z1", "z2">>}

\* json.dump(result, f): the text of the payload
DumpsText(value) == <<"{">> \o value \o <<"}">>

\* json.load(f): the text must be one JSON object, and nothing after it
LoadsText(text) ==
    IF /\ Len(text) >= 2
       /\ text[1] = "{"
       /\ text[Len(text)] = "}"
       /\ \A k \in 2..(Len(text) - 1) : text[k] \in Members
    THEN [ok |-> TRUE, value |-> SubSeq(text, 2, Len(text) - 1)]
    ELSE [ok |-> FALSE]

\* write(chunk) at the offset of the writer's own file object: the bytes
\* between the end of the file and the offset become a hole
WriteAt(text, offset, chunk) ==
    LET end == offset + Len(chunk)
        n == IF Len(text) > end THEN Len(text) ELSE end
    IN  [k \in 1..n |->
            IF k > offset /\ k <= end THEN chunk[k - offset]
            ELSE IF k <= Len(text) THEN text[k]
            ELSE "0"]

\* the next write of the dump of value, for a writer at offset
NextChunk(value, offset) ==
    LET text == DumpsText(value)
        end == IF offset + MaxChunk < Len(text) THEN offset + MaxChunk
               ELSE Len(text)
    IN  SubSeq(text, offset + 1, end)

\* an instance before line 161
StartFrame ==
    [pc |-> "start", cache_hits |-> 0, total_api_calls |-> 0, invoked |-> 0,
     value |-> <<>>, offset |-> 0, wrote |-> FALSE, served |-> "none"]

InitShared ==
    /\ AnalyzerIdle
    /\ batch = NoBatch
    /\ ParserIdle
    /\ MergerIdle
    /\ cache_file = NoCacheFile
    /\ instances = [i \in Instances |-> StartFrame]
    /\ readerGot = NotRead

\* line 86: cache_file.exists()
Exists(i) ==
    /\ instances[i].pc = "start"
    /\ instances' = [instances EXCEPT
                        ![i].pc = IF cache_file.exists THEN "load" ELSE "miss"]
    /\ UNCHANGED <<cache_file, readerGot, analyzerVars, batch, parserVars,
                   mergerVars>>

\* lines 88-93 and 165-174: the file is opened and read; a text that is no
\* JSON makes json.load raise, and the call goes on as on a miss
Load(i) ==
    /\ instances[i].pc = "load"
    /\ LET loaded == LoadsText(cache_file.text)
       IN  instances' =
              [instances EXCEPT
                 ![i].cache_hits = @ + 1,
                 ![i].pc = IF loaded.ok /\ loaded.value # <<>>
                           THEN "done" ELSE "miss",
                 ![i].served = IF loaded.ok /\ loaded.value # <<>>
                               THEN "cache" ELSE @,
                 ![i].value = IF loaded.ok /\ loaded.value # <<>>
                              THEN loaded.value ELSE @]
    /\ UNCHANGED <<cache_file, readerGot, analyzerVars, batch, parserVars,
                   mergerVars>>

\* lines 176-254: the sleep, client.messages.create and the normalization;
\* the call raises, or gives a payload
Extract(i) ==
    /\ instances[i].pc = "miss"
    /\ \/ instances' = [instances EXCEPT ![i].invoked = @ + 1,
                                         ![i].pc = "done",
                                         ![i].served = "empty"]
       \/ \E value \in Payloads :
             instances' = [instances EXCEPT ![i].invoked = @ + 1,
                                            ![i].total_api_calls = @ + 1,
                                            ![i].value = value,
                                            ![i].pc = "save"]
    /\ UNCHANGED <<cache_file, readerGot, analyzerVars, batch, parserVars,
                   mergerVars>>

\* line 99: open(cache_file, 'w') creates the file or cuts it to no bytes
OpenWrite(i) ==
    /\ instances[i].pc = "save"
    /\ cache_file' = [exists |-> TRUE, text |-> <<>>]
    /\ instances' = [instances EXCEPT ![i].pc = "dump", ![i].offset = 0,
                                      ![i].wrote = TRUE]
    /\ UNCHANGED <<readerGot, analyzerVars, batch, parserVars, mergerVars>>

\* line 100: one write of json.dump; after the last one the file is closed
\* and line 257 returns the result
Write(i) ==
    /\ instances[i].pc = "dump"
    /\ LET chunk == NextChunk(instances[i].value, instances[i].offset)
           offset == instances[i].offset + Len(chunk)
           closed == offset >= Len(DumpsText(instances[i].value))
       IN  /\ cache_file' =
                [exists |-> TRUE,
                 text |-> WriteAt(cache_file.text, instances[i].offset, chunk)]
           /\ instances' =
                [instances EXCEPT
                    ![i].offset = offset,
                    ![i].pc = IF closed THEN "done" ELSE "dump",
                    ![i].served = IF closed THEN "live" ELSE @]
    /\ UNCHANGED <<readerGot, analyzerVars, batch, parserVars, mergerVars>>

\* _load_from_cache of a reader of the same key
ReaderLoad ==
    /\ readerGot' =
          IF cache_file.exists /\ LoadsText(cache_file.text).ok
          THEN [kind |-> "payload", value |-> LoadsText(cache_file.text).value]
          ELSE [kind |-> "miss"]
    /\ UNCHANGED <<cache_file, instances, analyzerVars, batch, parserVars,
                   mergerVars>>

NextShared ==
    \/ \E i \in Instances : Exists(i)
    \/ \E i \in Instances : Load(i)
    \/ \E i \in Instances : Extract(i)
    \/ \E i \in Instances : OpenWrite(i)
    \/ \E i \in Instances : Write(i)
    \/ ReaderLoad

SpecShared == InitShared /\ [][NextShared]_vars

-----------------------------------------------------------------------------
(* Properties of analyze_message *)

\* the step is one analyze_message call; last' is its record
IsCall == ncalls' = ncalls + 1

\* the key a recorded call looked up
KeyOf(call) == CreateCacheKey(call.content \o call.context)

\* the step is an analyze_message call with the (content, context) of the
\* call before it
SameAgain ==
    /\ IsCall
    /\ last.outcome # "none"
    /\ last'.content = last.content
    /\ last'.context = last.context

SameAnalysis(r1, r2) ==
    /\ r1.entities = r2.entities
    /\ r1.relationships = r2.relationships
    /\ r1.concepts = r2.concepts
    /\ r1.analysis_timestamp = r2.analysis_timestamp
    /\ r1.model_version = r2.model_version

IsEmptyAnalysis(r) ==
    /\ r.entities = <<>>
    /\ r.relationships = <<>>
    /\ r.concepts = <<>>

FoundEntry ==
    /\ IsCall
    /\ ~IsShort(last'.content)
    /\ KeyOf(last') \in DOMAIN cache
    /\ cache[KeyOf(last')].kind = "json"
    /\ ~last'.readFailed

C4_ShortCircuit ==
    [][(IsCall /\ Len(last'.content) < MinContentLen) =>
          /\ last'.returned
          /\ last'.outcome = "short"
          /\ IsEmptyAnalysis(last'.result)
          /\ cache' = cache
          /\ now' = now
          /\ invocations' = invocations
          /\ total_api_calls' = total_api_calls
          /\ cache_hits' = cache_hits
          /\ analysis_errors' = analysis_errors]_vars

\* C4's case: a 19-character content was short-circuited although the file of
\* its key is in the cache, where a lookup would have counted a hit.
C4_Witness ==
    /\ last.outcome = "short"
    /\ Len(last.content) = 19
    /\ KeyOf(last) \in DOMAIN cache
    /\ cache[KeyOf(last)].kind = "json"
    /\ cache_hits = 0

\* C5: two successive invocations of the external capability are never less
\* than rate_limit_delay apart.
C5_RateLimit ==
    invokedAt[2] >= 0 => invokedAt[1] - invokedAt[2] >= rate_limit_delay

\* C5's case: the capability has been invoked twice.
C5_Witness == invokedAt[2] >= 0 /\ invocations = 2

\* C6: when the capability call raises, or the response holds no JSON, or the
\* JSON found does not parse, the call returns an empty result, adds one to
\* analysis_errors and invokes the capability once only.
C6_FailureCounted ==
    [][(IsCall /\ last'.outcome \in {"api_error", "nojson", "badjson"}) =>
          /\ last'.returned
          /\ IsEmptyAnalysis(last'.result)
          /\ analysis_errors' = analysis_errors + 1
          /\ invocations' = invocations + 1]_vars

\* C8: a failed cache read makes the call go on as on a miss (the delay, one
\* external call), a failed cache write still returns the extracted result
\* and is not tried again, and in neither case does an exception leave the
\* call.
C8_CacheIoNonFatal ==
    [][IsCall =>
          /\ last'.readFailed =>
                /\ last'.returned
                /\ last'.invoked = 1
                /\ invocations' = invocations + 1
                /\ now' = now + rate_limit_delay
                /\ invokedAt'[1] = now'
          /\ last'.wrote \in {"open_failed", "dump_failed"} =>
                /\ last'.returned
                /\ last'.outcome = "ok"
                /\ last'.result.model_version = model
                /\ last'.result.analysis_timestamp = Str(now')
                /\ last'.invoked = 1
                /\ last'.wrote = "open_failed" => cache' = cache
                /\ last'.wrote = "dump_failed" =>
                      cache'[KeyOf(last')] = PartialFile]_vars

\* C8's case: one call whose cache read failed and whose cache write failed
\* returned the extracted entities.
C8_Witness ==
    /\ last.readFailed
    /\ last.wrote = "dump_failed"
    /\ last.returned
    /\ Len(last.result.entities) = 2

-----------------------------------------------------------------------------
(* Properties of analyze_conversation_batch *)

\* the messages of the batch that are handed to analyze_message
RECURSIVE Analysed(_, _)
Analysed(sessions, max_messages) ==
    IF sessions = <<>> THEN <<>>
    ELSE SelectSeq(MessagesToAnalyze(Head(sessions), max_messages), IsAnalysed)
            \o Analysed(Tail(sessions), max_messages)

\* C7: no failure while analysing one message aborts the batch: the batch
\* never ends by an exception, and when it returns, its list holds one result
\* for every message it had to analyse.
C7_BatchNeverAborts ==
    /\ batch.status # "aborted"
    /\ batch.status = "done" =>
          Len(batch.returned) = Len(Analysed(batch.sessions, batch.max_messages))

-----------------------------------------------------------------------------
(* Properties of parse_jsonl_file *)

\* the messages of what parse_jsonl_file returned, none for None
MessagesOf(p) == IF p.status = "session" THEN p.session.messages ELSE <<>>

\* the line holds syntactically valid JSON
IsValidJson(line) == line.kind \in {"json", "toodeep"}

\* the line holds a JSON object whose type is user or assistant
IsTurn(line) ==
    /\ line.kind = "json"
    /\ IsDict(line.data)
    /\ Get(line.data, "type", None) \in {<<"user">>, <<"assistant">>}

\* C9: the messages parsed from a file are, in order, one for each line that
\* is valid JSON with type user or assistant, whatever the other lines are.
C9_ParseTotality ==
    parsed.status # "unparsed" =>
        LET turns == SelectSeq(file.lines, IsTurn)
        IN  /\ Len(MessagesOf(parsed)) = Len(turns)
            /\ \A i \in DOMAIN turns :
                  /\ MessagesOf(parsed)[i].uuid = Get(turns[i].data, "uuid", <<>>)
                  /\ MessagesOf(parsed)[i].message_type = turns[i].data.type

\* C10: the lines that are no valid JSON change nothing: the file yields the
\* messages it would yield with those lines taken out.
C10_MalformedLineSkipped ==
    parsed.status # "unparsed" =>
        MessagesOf(parsed) =
            MessagesOf(ParseJsonlFile(
                [file EXCEPT !.lines = SelectSeq(file.lines, IsValidJson)]))

-----------------------------------------------------------------------------
(* Properties of _parse_message *)

\* the record is a JSON object whose type is user or assistant
IsTurnRecord(data) ==
    IsDict(data) /\ Get(data, "type", None) \in {<<"user">>, <<"assistant">>}

\* message.content of the record is a list of blocks
HasBlocks(data) ==
    /\ IsDict(data)
    /\ "message" \in DOMAIN data
    /\ IsDict(data.message)
    /\ "content" \in DOMAIN data.message
    /\ IsList(data.message.content)

\* a record whose fields have shapes _parse_message cannot read: it is no
\* object, or its message is null, or a text block of it holds a text that is
\* no string, or its toolUseResult is no object with texts as stdout and stderr
Malformed(data) ==
    \/ ~IsDict(data)
    \/ /\ IsTurnRecord(data)
       /\ \/ /\ "message" \in DOMAIN data
             /\ ~IsDict(data.message)
             /\ ~IsStr(data.message) /\ ~IsList(data.message)
          \/ /\ HasBlocks(data)
             /\ \E i \in DOMAIN data.message.content.v :
                  LET item == data.message.content.v[i]
                  IN  /\ IsDict(item)
                      /\ Get(item, "type", None) = <<"text">>
                      /\ "text" \in DOMAIN item
                      /\ ~IsStr(item.text)
          \/ /\ "toolUseResult" \in DOMAIN data
             /\ \/ ~IsDict(data.toolUseResult)
                \/ ~IsStr(Get(data.toolUseResult, "stdout", JStr(<<>>)))
                \/ ~IsStr(Get(data.toolUseResult, "stderr", JStr(<<>>)))

\* C11: no _parse_message call lets an exception out; whatever the shapes of
\* message, content blocks and toolUseResult, it returns a Message or None,
\* and None for a malformed record.
C11_ParserNeverRaises ==
    \A i \in DOMAIN parseLog :
        /\ parseLog[i].result.returned
        /\ Malformed(parseLog[i].data) => ~parseLog[i].result.some

\* C11's case: a file of three records was parsed: a JSON array, a user
\* record with a string toolUseResult, and a well-formed user record, the
\* only one that made a message.
C11_Witness ==
    /\ Len(parseLog) = 3
    /\ parseLog[1].data = NonDict
    /\ parseLog[2].data = UserStringResult
    /\ parseLog[3].data = UserHi
    /\ parsed.status = "session"
    /\ Len(parsed.session.messages) = 1
    /\ parsed.session.messages[1].uuid = <<"a">>

\* C12: a record whose type is not user or assistant, a record without type
\* included, yields no Message, and every Message of the session parsed has
\* the type user or assistant.
C12_RoleFilter ==
    /\ \A i \in DOMAIN parseLog :
          ~IsTurnRecord(parseLog[i].data) => ~parseLog[i].result.some
    /\ parsed.status = "session" =>
          \A i \in DOMAIN parsed.session.messages :
              parsed.session.messages[i].message_type
                  \in {<<"user">>, <<"assistant">>}

\* C12's case: a file with a meta record, a record without type and a user
\* record was parsed into a session of one message.
C12_Witness ==
    /\ Len(parseLog) = 3
    /\ parseLog[1].data = Meta /\ ~parseLog[1].result.some
    /\ parseLog[2].data = EmptyDict /\ ~parseLog[2].result.some
    /\ parseLog[3].data = UserHi /\ parseLog[3].result.some
    /\ parsed.status = "session"
    /\ Len(parsed.session.messages) = 1
    /\ parsed.session.messages[1].message_type = <<"user">>

\* a block of the given type
IsTextBlock(item) == IsDict(item) /\ Get(item, "type", None) = <<"text">>

IsToolUseBlock(item) == IsDict(item) /\ Get(item, "type", None) = <<"tool_use">>

IsToolResultBlock(item) ==
    IsDict(item) /\ Get(item, "type", None) = <<"tool_result">>

\* the texts of the blocks, one after the other; a block without text adds
\* nothing
RECURSIVE ConcatTexts(_)
ConcatTexts(blocks) ==
    IF blocks = <<>> THEN <<>>
    ELSE Get(Head(blocks), "text", JStr(<<>>)).v \o ConcatTexts(Tail(blocks))

\* no white space at either end
IsTrimmed(text) ==
    text = <<>> \/ (~IsSpace(text[1]) /\ ~IsSpace(text[Len(text)]))

\* the entries of tool_results that come from the record's toolUseResult
SyntheticCount(data) == IF "toolUseResult" \in DOMAIN data THEN 1 ELSE 0

\* C13: of a record whose message.content is a list of blocks, the Message has
\* as content the trimmed concatenation, in order, of the texts of the text
\* blocks, the tool_use blocks in order as tool_uses and the tool_result
\* blocks in order as tool_results; of a record whose message.content is a
\* string, the Message has that string, trimmed, as content.
C13_ContentExtraction ==
    \A n \in DOMAIN parseLog :
        LET data == parseLog[n].data
            m == parseLog[n].result.message
        IN  parseLog[n].result.some =>
              /\ IsTrimmed(m.content)
              /\ HasBlocks(data) =>
                    LET blocks == data.message.content.v
                        uses == SelectSeq(blocks, IsToolUseBlock)
                        results == SelectSeq(blocks, IsToolResultBlock)
                    IN  /\ m.content =
                              Strip(ConcatTexts(SelectSeq(blocks, IsTextBlock)))
                        /\ Len(m.tool_uses) = Len(uses)
                        /\ \A i \in DOMAIN uses :
                              /\ m.tool_uses[i].name = Get(uses[i], "name", <<>>)
                              /\ m.tool_uses[i].id = Get(uses[i], "id", <<>>)
                        /\ Len(m.tool_results) =
                              Len(results) + SyntheticCount(data)
                        /\ \A i \in DOMAIN results :
                              /\ m.tool_results[i].content =
                                    Get(results[i], "content", <<>>)
                              /\ m.tool_results[i].tool_use_id =
                                    Get(results[i], "tool_use_id", <<>>)
              /\ (/\ "message" \in DOMAIN data
                  /\ IsDict(data.message)
                  /\ "content" \in DOMAIN data.message
                  /\ IsStr(data.message.content)) =>
                    /\ m.content = Strip(data.message.content.v)
                    /\ m.tool_uses = <<>>
                    /\ Len(m.tool_results) = SyntheticCount(data)

\* C13's case: the record with two text blocks " p" and "r ", a tool_use and
\* a tool_result between them made a message with content "pr", and the
\* record with the string " x " one with content "x".
C13_Witness ==
    /\ Len(parseLog) = 2
    /\ parseLog[1].data = AssistantBlocks
    /\ parseLog[1].result.some
    /\ parseLog[1].result.message.content = <<"p", "r">>
    /\ Len(parseLog[1].result.message.tool_uses) = 1
    /\ parseLog[1].result.message.tool_results[1].tool_use_id = <<"t2">>
    /\ parseLog[2].data = UserPadded
    /\ parseLog[2].result.message.content = <<"x">>

\* the tool_result blocks of the record's message
BlockResults(data) ==
    IF HasBlocks(data)
    THEN SelectSeq(data.message.content.v, IsToolResultBlock)
    ELSE <<>>

\* C14: a user or assistant record that carries toolUseResult adds exactly
\* one entry at the end of the Message's tool_results: its content is stdout
\* followed by stderr, its is_error tells whether stderr is non-empty, and
\* its interrupted is the record's value, false when there is none.  A record
\* without toolUseResult adds none.
C14_SideChannelResult ==
    \A n \in DOMAIN parseLog :
        LET data == parseLog[n].data
            m == parseLog[n].result.message
        IN  /\ (parseLog[n].result.some /\ "toolUseResult" \in DOMAIN data) =>
                LET r == data.toolUseResult
                    entry == m.tool_results[Len(m.tool_results)]
                IN  /\ Len(m.tool_results) = Len(BlockResults(data)) + 1
                    /\ entry.content = Get(r, "stdout", JStr(<<>>)).v
                                          \o Get(r, "stderr", JStr(<<>>)).v
                    /\ entry.is_error <=> Get(r, "stderr", JStr(<<>>)).v # <<>>
                    /\ entry.interrupted = Get(r, "interrupted", FALSE)
            /\ (parseLog[n].result.some /\ "toolUseResult" \notin DOMAIN data) =>
                Len(m.tool_results) = Len(BlockResults(data))
            /\ (IsTurnRecord(data) /\ "toolUseResult" \in DOMAIN data
                    /\ ~Malformed(data)) =>
                parseLog[n].result.some

\* C14's case: the record with stdout "o" and stderr "e" after a tool_result
\* block has "oe" in its second result, marked as an error; the record with
\* stdout "o" alone and interrupted true has a result that is no error.
C14_Witness ==
    /\ Len(parseLog) = 2
    /\ parseLog[1].data = UserToolResult
    /\ Len(parseLog[1].result.message.tool_results) = 2
    /\ parseLog[1].result.message.tool_results[2] =
          [content |-> <<"o", "e">>, is_error |-> TRUE, interrupted |-> FALSE]
    /\ parseLog[2].data = AssistantBlocks
    /\ parseLog[2].result.message.tool_results[2] =
          [content |-> <<"o">>, is_error |-> FALSE, interrupted |-> TRUE]

-----------------------------------------------------------------------------
(* Properties of parse_jsonl_file: the session *)

\* the message carries a session_id
HasSessionId(message) == message.session_id # <<>>

\* C15: the session_id of the Session is that of the first Message, in file
\* order, with a non-empty session_id, and the stem of the file's name when
\* no Message has one: it is fixed by the file.
C15_SessionIdentity ==
    parsed.status = "session" =>
        LET carriers == SelectSeq(parsed.session.messages, HasSessionId)
        IN  parsed.session.session_id =
                IF carriers # <<>> THEN carriers[1].session_id ELSE file.stem

\* C15's case: the first message of the file has no session_id, the second
\* has s1 and the third s2, and the session got s1.
C15_Witness ==
    /\ parsed.status = "session"
    /\ Len(parsed.session.messages) = 3
    /\ parsed.session.messages[1].session_id = <<>>
    /\ parsed.session.messages[2].session_id = <<"s1">>
    /\ parsed.session.messages[3].session_id = <<"s2">>
    /\ parsed.session.session_id = <<"s1">>

\* the line can make no message: it is blank, or no JSON, or a record that is
\* no user or assistant turn
IsNoTurnLine(line) ==
    \/ line.kind \in {"blank", "badjson"}
    \/ line.kind = "json" /\ ~IsTurnRecord(line.data)

\* C16: parse_jsonl_file returns None whenever no Message results from the
\* file (an empty file, malformed lines only, records that are no turns
\* only); a session it returns has messages, and so has every session in the
\* processor's list.
C16_EmptySource ==
    /\ \A i \in DOMAIN directory :
          /\ (\A n \in DOMAIN directory[i].file.lines :
                  IsNoTurnLine(directory[i].file.lines[n])) =>
                directory[i].result.status = "none"
          /\ ParseLines(directory[i].file.lines, NoLines).messages = <<>> =>
                directory[i].result.status = "none"
          /\ directory[i].result.status = "session" =>
                directory[i].result.session.messages # <<>>
    /\ \A j \in DOMAIN processor_sessions :
          /\ processor_sessions[j].messages # <<>>
          /\ processor_sessions[j].total_messages > 0

\* C16's case: a directory of an empty file and the three-line log was
\* processed: the processor holds the one session of the log.
C16_Witness ==
    /\ Len(directory) = 2
    /\ directory[1].file.lines = <<>>
    /\ directory[1].result.status = "none"
    /\ directory[2].result.status = "session"
    /\ Len(processor_sessions) = 1
    /\ processor_sessions[1].session_id = <<"s1">>
    /\ processor_sessions[1].total_messages = 2

\* C17: in every Session parse_jsonl_file returns, user_messages plus
\* assistant_messages is total_messages, which is the number of messages,
\* and tool_uses is the number of tool_use entries of all messages together.
C17_AggregateConsistency ==
    parsed.status = "session" =>
        LET session == parsed.session
            n == Len(session.messages)
            uses == UNION {{<<i, j>> : j \in DOMAIN session.messages[i].tool_uses} :
                              i \in 1..n}
        IN  /\ session.user_messages + session.assistant_messages
                  = session.total_messages
            /\ session.total_messages = n
            /\ session.tool_uses = Cardinality(uses)

\* C17's case: the three-line log of a user turn, an assistant turn with one
\* tool_use and a meta record parsed to the session s1 of 2 messages, 1 of
\* the user, 1 of the assistant, with 1 tool use and "ok" as second content.
C17_Witness ==
    /\ file.lines = <<JsonLine(UserHi), JsonLine(AssistantOk), JsonLine(Meta)>>
    /\ parsed.status = "session"
    /\ parsed.session.session_id = <<"s1">>
    /\ parsed.session.total_messages = 2
    /\ parsed.session.user_messages = 1
    /\ parsed.session.assistant_messages = 1
    /\ parsed.session.tool_uses = 1
    /\ parsed.session.messages[2].content = <<"o", "k">>

-----------------------------------------------------------------------------
(* Properties of merge_graphs *)

\* the entities of the graphs, graph after graph
RECURSIVE AllEntities(_)
AllEntities(graph_data_list) ==
    IF graph_data_list = <<>> THEN <<>>
    ELSE Head(graph_data_list).entities \o AllEntities(Tail(graph_data_list))

\* the relationships of the graphs, graph after graph
RECURSIVE AllRelationships(_)
AllRelationships(graph_data_list) ==
    IF graph_data_list = <<>> THEN <<>>
    ELSE Head(graph_data_list).relationships
            \o AllRelationships(Tail(graph_data_list))

\* the number of relationships of the graphs together
RECURSIVE SumRelationships(_)
SumRelationships(graph_data_list) ==
    IF graph_data_list = <<>> THEN 0
    ELSE Len(Head(graph_data_list).relationships)
            + SumRelationships(Tail(graph_data_list))

\* where the name occurs first in a sequence of entities that holds it
FirstOf(entities, name) ==
    CHOOSE i \in DOMAIN entities :
        /\ entities[i].name = name
        /\ \A j \in 1..(i - 1) : entities[j].name # name

\* C18: for every name on an entity of an input graph the merged graph holds
\* exactly one entity of that name, the first one in input order, whatever
\* the later ones say; it holds no other entity, and its entities stand in
\* the order of their first occurrence.
C18_MergeDedup ==
    merged.status = "merged" =>
        LET all == AllEntities(graphs)
            kept == merged.graph.entities
        IN  /\ \A k \in DOMAIN all :
                  Cardinality({i \in DOMAIN kept : kept[i].name = all[k].name}) = 1
            /\ \A i \in DOMAIN kept :
                  /\ \E k \in DOMAIN all : all[k].name = kept[i].name
                  /\ kept[i] = all[FirstOf(all, kept[i].name)]
            /\ \A i, j \in DOMAIN kept :
                  i < j => FirstOf(all, kept[i].name) < FirstOf(all, kept[j].name)

\* C18's case: the first graph holds X with description 1, Y and X with
\* description 3, the second Y and X with description 2; the merged graph
\* holds X with description 1 and then Y.
C18_Witness ==
    /\ merged.status = "merged"
    /\ Len(graphs) = 2
    /\ Len(graphs[1].entities) = 3
    /\ graphs[1].entities[3].description = <<"3">>
    /\ Len(graphs[2].entities) = 2
    /\ graphs[2].entities[2].description = <<"2">>
    /\ Len(merged.graph.entities) = 2
    /\ merged.graph.entities[1].name = <<"X">>
    /\ merged.graph.entities[1].description = <<"1">>
    /\ merged.graph.entities[2].name = <<"Y">>

\* C19: the merged graph holds the relationships of the input graphs one
\* after the other in input order, as many as the graphs hold together:
\* none is dropped as a duplicate or for naming an entity that is not there.
C19_RelationshipPreservation ==
    merged.status = "merged" =>
        /\ merged.graph.relationships = AllRelationships(graphs)
        /\ Len(merged.graph.relationships) = SumRelationships(graphs)

\* C19's case: graphs with 2, 0 and 1 relationships were merged into X-Y,
\* X-Z, X-Y: X-Y is there twice, and X-Z although no entity is named Z.
C19_Witness ==
    /\ merged.status = "merged"
    /\ Len(graphs) = 3
    /\ Len(graphs[1].relationships) = 2
    /\ Len(graphs[2].relationships) = 0
    /\ Len(graphs[3].relationships) = 1
    /\ merged.graph.relationships = <<EdgeXY, EdgeXZ, EdgeXY>>
    /\ \A i \in DOMAIN merged.graph.entities :
          merged.graph.entities[i].name # <<"Z">>

\* C20: the metadata of the merged graph has the number of input graphs as
\* total_sessions, the set of the project labels of the sessions the input
\* graphs were made of as projects, and the numbers of merged entities and
\* relationships as total_entities and total_relationships.
C20_MergeMetadata ==
    merged.status = "merged" =>
        /\ merged.graph.metadata.total_sessions = Len(graphs)
        /\ merged.graph.metadata.projects =
              {analysed[i].project_name : i \in DOMAIN analysed}
        /\ merged.graph.metadata.total_entities = Len(merged.graph.entities)
        /\ merged.graph.metadata.total_relationships =
              Len(merged.graph.relationships)

-----------------------------------------------------------------------------
(* Properties of the identities analyze_message assigns *)

\* the step is an analyze_message call that missed, extracted a payload and
\* normalized it
IsExtraction == IsCall /\ last'.outcome = "ok"

\* the text "<session_id>_<message_uuid>_<i>", and "<session_id>_<i>" for a
\* message without uuid
IdentityText(session_id, message_uuid, i) ==
    session_id \o <<"_">>
        \o (IF message_uuid = <<>> THEN <<>> ELSE message_uuid \o <<"_">>)
        \o Str(i)

\* the identities of the entities of a result, in order
IdsOf(r) == [i \in DOMAIN r.entities |-> r.entities[i].id]

\* C21: on a cache miss the i-th entity extracted (counted from 0) gets the
\* identity built from (session_id, message_uuid, i); no two entities of the
\* message share an identity; and an extraction for the same message right
\* after, with a payload of as many entities, gives the same identities.
C21_DeterministicIdentity ==
    [][IsExtraction =>
          LET r == last'.result IN
          /\ \A i \in DOMAIN r.entities :
                r.entities[i].id =
                    IdentityText(r.session_id, r.message_uuid, i - 1)
          /\ \A i, j \in DOMAIN r.entities :
                i # j => r.entities[i].id # r.entities[j].id
          /\ (/\ last.outcome = "ok"
              /\ last.result.session_id = r.session_id
              /\ last.result.message_uuid = r.message_uuid
              /\ Len(last.result.entities) = Len(r.entities)) =>
                IdsOf(last.result) = IdsOf(r)]_vars

\* C21's case: the message u of session s was analysed twice on a miss (the
\* first extraction could not write its entry), and the second extraction
\* gave its two entities the identities s_u_0 and s_u_1.
C21_Witness ==
    /\ ncalls = 2 /\ invocations = 2 /\ cache_hits = 0
    /\ analysis_errors = 0 /\ cache = <<>>
    /\ last.outcome = "ok" /\ last.wrote = "open_failed"
    /\ IdsOf(last.result) =
          << <<"s", "_", "u", "_", "0">>, <<"s", "_", "u", "_", "1">> >>

-----------------------------------------------------------------------------
(* Properties of the order of analyze_conversation_batch *)

\* the first max_messages messages of a session that have content, each with
\* the session it is of
CappedWithContent(session, max_messages) ==
    LET n == IF Len(session.messages) < max_messages
             THEN Len(session.messages) ELSE max_messages
        first == SubSeq(session.messages, 1, n)
        kept == SelectSeq(first, LAMBDA message : message.content # <<>>)
    IN  [i \in DOMAIN kept |->
            [session_id |-> session.session_id, uuid |-> kept[i].uuid,
             content |-> kept[i].content]]

\* those messages of all the sessions, in input order
RECURSIVE InDocumentOrder(_, _)
InDocumentOrder(sessions, max_messages) ==
    IF sessions = <<>> THEN <<>>
    ELSE CappedWithContent(Head(sessions), max_messages)
            \o InDocumentOrder(Tail(sessions), max_messages)

\* the result is the one of that message
IsResultOf(result, message) ==
    /\ result.session_id = message.session_id
    /\ result.message_uuid = message.uuid

\* C22: the batch analyses the sessions in input order and of each session
\* only the first max_messages messages, in document order and one at a time:
\* the n-th analyze_message call of the batch is for the n-th of those
\* messages that has content, so no message beyond the cap is analysed or
\* sent; and the list returned holds one result for each of those messages,
\* in the same order.
C22_BatchOrderAndCap ==
    [][/\ IsCall =>
            LET todo == InDocumentOrder(batch.sessions, batch.max_messages)
            IN  /\ ncalls' <= Len(todo)
                /\ last'.content = todo[ncalls'].content
                /\ IsResultOf(last'.result, todo[ncalls'])
                /\ invocations' - invocations = last'.invoked
                /\ last'.invoked <= 1
       /\ (batch.status = "running" /\ batch'.status = "done") =>
            LET todo == InDocumentOrder(batch'.sessions, batch'.max_messages)
            IN  /\ Len(batch'.returned) = Len(todo)
                /\ ncalls = Len(todo)
                /\ \A i \in DOMAIN todo :
                      IsResultOf(batch'.returned[i], todo[i])]_vars

\* C22's case: the batch over the sessions s and t with a cap of 2 returned
\* the results of the messages u and x, in that order, after two calls: the
\* message v has no content, and w, the third of s, is beyond the cap.
C22_Witness ==
    /\ batch.status = "done"
    /\ batch.sessions = <<SessionS, SessionT>>
    /\ batch.max_messages = 2
    /\ ncalls = 2
    /\ Len(batch.returned) = 2
    /\ batch.returned[1].message_uuid = <<"u">>
    /\ batch.returned[2].message_uuid = <<"x">>
    /\ batch.returned[2].session_id = <<"t">>

-----------------------------------------------------------------------------
(* Properties of the cache store *)

\* the keys of cache_data
CacheDataKeys ==
    {"entities", "relationships", "concepts", "analysis_timestamp",
     "model_version"}

\* the file holds a payload as analyze_message writes it
IsEntry(f) ==
    /\ f.kind = "json"
    /\ IsDict(f.value)
    /\ DOMAIN f.value = CacheDataKeys

\* the call left the entry of key k as it was
Kept(k) == k \in DOMAIN cache' /\ cache'[k] = cache[k]

\* C23 as stated: once a call of analyze_message has written the entry of
\* its key, the next call by the same orchestrator does not overwrite, change
\* or remove that entry; and a call that was served from the cache writes
\* nothing.
C23_NeverMutated ==
    [][IsCall =>
          /\ (last.outcome = "ok" /\ last.wrote = "ok") => Kept(KeyOf(last))
          /\ last'.outcome = "hit" => cache' = cache]_vars

\* C23, amended: an entry that analyze_message has written is overwritten,
\* changed or removed only by a call for its key whose read of it failed;
\* every other call leaves it as it was.  The cache is written only by a
\* call that was not served from it and extracted a payload, and only under
\* the key of that call.
C23_MutatedOnlyAfterFailedRead ==
    [][IsCall =>
          /\ \A k \in DOMAIN cache :
                (IsEntry(cache[k]) /\ ~(k = KeyOf(last') /\ last'.readFailed))
                    => Kept(k)
          /\ \A k \in DOMAIN cache : k # KeyOf(last') => Kept(k)
          /\ DOMAIN cache' \subseteq DOMAIN cache \cup {KeyOf(last')}
          /\ cache' # cache => last'.outcome = "ok" /\ last'.invoked = 1
          /\ last'.outcome \in {"hit", "short"} => cache' = cache]_vars

\* C23's case: the entry a first call wrote at time 1 for the message u was
\* read by the second call, for the message without uuid, and is still as
\* the first call wrote it.
C23_Witness ==
    /\ ncalls = 2 /\ invocations = 1 /\ now = 1
    /\ last.outcome = "hit"
    /\ last.result.message_uuid = <<>>
    /\ KeyOf(last) \in DOMAIN cache
    /\ IsEntry(cache[KeyOf(last)])
    /\ Len(cache[KeyOf(last)].value.entities) = 2
    /\ cache[KeyOf(last)].value.analysis_timestamp = Str(1)
    /\ cache[KeyOf(last)].value.entities[1].id = <<"s", "_", "u", "_", "0">>

-----------------------------------------------------------------------------
(* Properties of two instances on one cache_dir *)

\* the instance has written, or is writing, the file
HasWritten(i) == instances[i].wrote

\* the payloads the writers have handed to _save_to_cache
WrittenValues == {instances[i].value : i \in {j \in Instances : HasWritten(j)}}

\* both instances have written the file and returned
BothWrote == \A i \in Instances : HasWritten(i) /\ instances[i].pc = "done"

\* C24: when both instances write the file of the key, whatever the order of
\* their steps, the file in the end holds the complete payload of one of
\* them; and every read of the key, by a reader or by an instance, returns a
\* miss or the complete payload of one writer.
C24_ConcurrentPutNonCorrupting ==
    /\ BothWrote =>
          /\ LoadsText(cache_file.text).ok
          /\ LoadsText(cache_file.text).value \in WrittenValues
    /\ readerGot.kind = "payload" => readerGot.value \in WrittenValues
    /\ \A i \in Instances :
          instances[i].served = "cache" => instances[i].value \in WrittenValues

\* the instance invoked the external capability and got a payload
Priced(i) == instances[i].invoked = 1 /\ instances[i].total_api_calls = 1

\* C30: two instances that analyse the same (content, context) on one
\* cache_dir do not both pay for it: at most one of them gets its payload
\* from the external capability.
C30_PricedOnceUnderSharing ==
    Cardinality({i \in Instances : Priced(i)}) <= 1

-----------------------------------------------------------------------------
(* Properties of the counters of LLMAnalyzer *)

\* C25: after any sequence of analyze_message calls, total_api_calls is the
\* number of times the external capability was invoked, the invocations that
\* failed included.
C25_ExternalCallCounter == total_api_calls = invocations

\* C26: a call adds one to cache_hits exactly when its result is served from
\* the cache; a call that invokes the external capability leaves cache_hits
\* as it was, so no call adds to both cache_hits and total_api_calls.
C26_CacheHitCounter ==
    [][IsCall =>
          /\ cache_hits' = cache_hits + (IF last'.outcome = "hit" THEN 1 ELSE 0)
          /\ last'.invoked = 1 => cache_hits' = cache_hits
          /\ ~(cache_hits' > cache_hits /\ total_api_calls' > total_api_calls)]_vars

-----------------------------------------------------------------------------
(* Properties of the cache key *)

\* the request of a recorded call
RequestOf(call) == <<call.content, call.context>>

\* the call before this step wrote the entry of its key
WroteEntry == last.outcome = "ok" /\ last.wrote = "ok"

\* C27: a call is served from the entry the call before it wrote only when
\* it has the same content and the same context; two calls with different
\* (content, context), both of sufficient length, look up different keys.
C27_HitOnlyForSameRequest ==
    [][IsCall =>
          /\ (WroteEntry /\ last'.outcome = "hit" /\ KeyOf(last') = KeyOf(last))
                => RequestOf(last') = RequestOf(last)
          /\ (/\ ~IsShort(last.content) /\ ~IsShort(last'.content)
              /\ RequestOf(last') # RequestOf(last))
                => KeyOf(last') # KeyOf(last)]_vars

-----------------------------------------------------------------------------
(* Properties of the identities in a returned result *)

\* C28: in every result analyze_message returns for (session_id,
\* message_uuid), extracted or served from the cache, the i-th entity has
\* the identity built from (session_id, message_uuid, i), also when the
\* entry it is served from was written for another message.
C28_IdentityOfOwner ==
    [][(IsCall /\ last'.returned) =>
          LET r == last'.result IN
          \A i \in DOMAIN r.entities :
             r.entities[i].id =
                 IdentityText(r.session_id, r.message_uuid, i - 1)]_vars

-----------------------------------------------------------------------------
(* Properties of a failed extraction *)

\* the outcomes of a failed extraction: the call raised, no JSON was found,
\* the JSON found did not parse
Failures == {"api_error", "nojson", "badjson"}

\* C29 as stated: a call that ends in an extraction failure leaves the cache
\* as it was, and the next call with the same (content, context) is again a
\* miss and invokes the external capability again.
C29_FailureThenMissAgain ==
    [][/\ (IsCall /\ last'.outcome \in Failures) => cache' = cache
       /\ (SameAgain /\ last.outcome \in Failures) =>
              /\ last'.outcome # "hit"
              /\ last'.invoked = 1]_vars

\* C29, amended: a call that ends in an extraction failure leaves the cache
\* as it was; the next call with the same (content, context) is again a miss
\* and invokes the external capability again, unless the failed call had
\* gone on after a failed read of an entry and the next call's read of it
\* does not fail.
C29_FailedAnalysisCachesNothing ==
    [][/\ (IsCall /\ last'.outcome \in Failures) => cache' = cache
       /\ (/\ SameAgain /\ last.outcome \in Failures
           /\ ~(last.readFailed /\ ~last'.readFailed)) =>
              /\ last'.outcome # "hit"
              /\ last'.invoked = 1
              /\ invocations' = invocations + 1]_vars

\* C29's case: two calls for (20 x "a", "") on an empty cache_dir, in both
\* the capability raised; the directory is still empty and the capability
\* has been invoked twice.
C29_Witness ==
    /\ ncalls = 2 /\ invocations = 2
    /\ total_api_calls = 0 /\ analysis_errors = 2
    /\ last.outcome = "api_error"
    /\ last.content = Rep("a", 20) /\ last.context = <<>>
    /\ cache = <<>>

=============================================================================
